---- MODULE Spec2Model ----
(***************************************************************************)
(* A model of sync-image: one process run that fetches one image-move      *)
(* issue, rewrites the image reference, probes the upstream platforms,     *)
(* chooses the single-platform or the buildx path, pushes, runs the        *)
(* post-publish hook chain and reports on the issue.                       *)
(*                                                                         *)
(* Go strings are TLA+ strings, inspected character by character with      *)
(* SubSeq.  The program's Chinese message texts are written in English;    *)
(* no claim depends on their wording.                                      *)
(***************************************************************************)
EXTENDS Integers, Sequences, FiniteSets, TLC

(***************************************************************************)
(* Go's strings package, as far as the program uses it.                    *)
(***************************************************************************)
Ch(s, i) == SubSeq(s, i, i)

CharsOf(s) == {Ch(s, i) : i \in 1..Len(s)}

HasPrefix(s, p) == Len(s) >= Len(p) /\ SubSeq(s, 1, Len(p)) = p

Contains(s, sub) ==
    \E i \in 1..(Len(s) - Len(sub) + 1) : SubSeq(s, i, i + Len(sub) - 1) = sub

\* strings.Index: the 0-based place of the first occurrence, -1 when there is none.
Index(s, sub) ==
    IF Contains(s, sub)
    THEN (CHOOSE i \in 1..(Len(s) - Len(sub) + 1) :
              /\ SubSeq(s, i, i + Len(sub) - 1) = sub
              /\ \A j \in 1..(i - 1) : SubSeq(s, j, j + Len(sub) - 1) # sub) - 1
    ELSE -1

WhiteSpace == {" ", "\t", "\n", "\r"}

RECURSIVE TrimLeft(_)
TrimLeft(s) ==
    IF Len(s) > 0 /\ Ch(s, 1) \in WhiteSpace THEN TrimLeft(SubSeq(s, 2, Len(s))) ELSE s

RECURSIVE TrimRight(_)
TrimRight(s) ==
    IF Len(s) > 0 /\ Ch(s, Len(s)) \in WhiteSpace
    THEN TrimRight(SubSeq(s, 1, Len(s) - 1))
    ELSE s

TrimSpace(s) == TrimRight(TrimLeft(s))

\* strings.Split with a non-empty separator: n separators give n+1 parts.
RECURSIVE Split(_, _)
Split(s, sep) ==
    IF Contains(s, sep)
    THEN LET i == Index(s, sep) + 1
         IN  <<SubSeq(s, 1, i - 1)>> \o Split(SubSeq(s, i + Len(sep), Len(s)), sep)
    ELSE <<s>>

RECURSIVE Join(_, _)
Join(parts, sep) ==
    IF Len(parts) = 0 THEN ""
    ELSE IF Len(parts) = 1 THEN parts[1]
    ELSE parts[1] \o sep \o Join(Tail(parts), sep)

\* strings.Replace(s, old, new, 1): the first occurrence only.
ReplaceFirst(s, old, new) ==
    IF Contains(s, old)
    THEN LET i == Index(s, old) + 1
         IN  SubSeq(s, 1, i - 1) \o new \o SubSeq(s, i + Len(old), Len(s))
    ELSE s

\* strings.ReplaceAll(s, c, "") for a single character c.
RECURSIVE RemoveChar(_, _)
RemoveChar(s, c) ==
    IF Contains(s, c)
    THEN LET i == Index(s, c) + 1
         IN  SubSeq(s, 1, i - 1) \o RemoveChar(SubSeq(s, i + 1, Len(s)), c)
    ELSE s

RECURSIVE RemoveChars(_, _)
RemoveChars(s, cs) ==
    IF Len(cs) = 0 THEN s ELSE RemoveChars(RemoveChar(s, cs[1]), Tail(cs))

RECURSIVE Repeat(_, _)
Repeat(s, n) ==
    IF n = 0 THEN ""
    ELSE LET half == Repeat(s, n \div 2)
         IN  half \o half \o (IF n % 2 = 1 THEN s ELSE "")

(***************************************************************************)
(* pkg/utils: image names and issue titles.                                *)
(***************************************************************************)
AlphaNum == CharsOf("abcdefghijklmnopqrstuvwxyzABCDEFGHIJKLMNOPQRSTUVWXYZ0123456789")

NameChars == AlphaNum \cup {".", "_", ":", "/", "-"}

\* The backquote, the fourth entry of both lists in the source, cannot be written
\* in a TLA+ string; no modelled input holds one.
DangerousChars == {";", "&", "|", "$", "(", ")", "{", "}", "[", "]", "<", ">"}

MaxImageNameLen == 255

\* validPattern ^[a-zA-Z0-9][a-zA-Z0-9._:/-]*[a-zA-Z0-9]$ : two characters at least.
MatchesValidPattern(s) ==
    /\ Len(s) >= 2
    /\ Ch(s, 1) \in AlphaNum
    /\ Ch(s, Len(s)) \in AlphaNum
    /\ \A i \in 2..(Len(s) - 1) : Ch(s, i) \in NameChars

IsValidImageName(imageName) ==
    /\ imageName # ""
    /\ Len(imageName) <= MaxImageNameLen
    /\ MatchesValidPattern(imageName)
    /\ CharsOf(imageName) \cap DangerousChars = {}

SanitizeString(s) ==
    TrimSpace(RemoveChars(s, <<"\n", "\r", "\t", ";", "&", "|", "$">>))

\* ParseIssueTitle: <<imageName, platform>>.
ParseIssueTitle(title) ==
    LET cleaned == TrimSpace(ReplaceFirst(title, "[PORTER]", ""))
        parts   == Split(cleaned, "|")
    IN  <<TrimSpace(parts[1]), IF Len(parts) > 1 THEN TrimSpace(parts[2]) ELSE "">>

\* A normalization that puts the hub's host in front of every name.
NormalizeAlwaysPrefix(name) == "docker.io/" \o TrimSpace(name)

NormalizeImageName(name) ==
    LET imageName == TrimSpace(name)
    IN  IF \/ ~Contains(imageName, ".")
           \/ (~Contains(imageName, "/") /\ Index(imageName, ".") > Index(imageName, "/"))
        THEN "docker.io/" \o imageName
        ELSE IF ~Contains(imageName, "/")
        THEN "docker.io/library/" \o imageName
        ELSE imageName

\* A rule pattern is "^" and then literal characters, "." standing for any one
\* character; anchored, it matches at most once, at the start.
PatternBody(pattern) == SubSeq(pattern, 2, Len(pattern))

RuleMatches(pattern, s) ==
    LET body == PatternBody(pattern)
    IN  /\ Len(s) >= Len(body)
        /\ \A i \in 1..Len(body) : Ch(body, i) = "." \/ Ch(body, i) = Ch(s, i)

\* re.ReplaceAllString(result, replacement) for one rule.
ApplyRule(rule, s) ==
    IF RuleMatches(rule[1], s)
    THEN rule[2] \o SubSeq(s, Len(PatternBody(rule[1])) + 1, Len(s))
    ELSE s

StripDigest(s) == IF Contains(s, "@") THEN Split(s, "@")[1] ELSE s

\* The rules are a Go map: the loop meets them in any order, so the outcome is
\* the set of results over every order.
RECURSIVE ApplyRules(_, _)
ApplyRules(rules, s) ==
    IF rules = {} THEN {s}
    ELSE UNION {ApplyRules(rules \ {r}, ApplyRule(r, s)) : r \in rules}

TransformImageName(imageName, rules) == ApplyRules(rules, StripDigest(imageName))

\* A target that keeps the whole rewritten path.
BuildTargetFullPath(transformedName, targetRegistry, targetNamespace) ==
    targetRegistry \o "/" \o targetNamespace \o "/" \o transformedName

\* A target that keeps the namespace segment of the rewritten name.
BuildTargetKeepNamespace(transformedName, targetRegistry, targetNamespace) ==
    LET segments == Split(transformedName, "/")
        n        == Len(segments)
    IN  targetRegistry \o "/" \o targetNamespace \o "/"
        \o (IF n >= 2 /\ segments[n - 1] # "" THEN segments[n - 1] \o "-" ELSE "")
        \o segments[n]

\* A target that writes the registry and the namespace even when empty.
BuildTargetAlwaysJoin(transformedName, targetRegistry, targetNamespace) ==
    LET segments == Split(transformedName, "/")
    IN  targetRegistry \o "/" \o targetNamespace \o "/" \o segments[Len(segments)]

BuildTargetImageName(transformedName, targetRegistry, targetNamespace) ==
    LET segments   == Split(transformedName, "/")
        repository == segments[Len(segments)]
        result     == IF targetNamespace # ""
                      THEN targetNamespace \o "/" \o repository
                      ELSE repository
    IN  IF targetRegistry # "" THEN targetRegistry \o "/" \o result ELSE result

(***************************************************************************)
(* pkg/errors.  An error is its chain of layers, outermost first: an       *)
(* *AppError layer (app) with type, message and context, or a plain layer  *)
(* made by fmt.Errorf / returned by an external call.  NoErr is nil.       *)
(***************************************************************************)
NoErr == <<>>

ValidationError == "VALIDATION_ERROR"
DockerError == "DOCKER_ERROR"

Layer(app, type, msg, ctx) == [app |-> app, type |-> type, msg |-> msg, ctx |-> ctx]

\* errors.New / an error returned by the daemon, the CLI or the registry.
PlainError(msg) == <<Layer(FALSE, "", msg, {})>>

\* fmt.Errorf("msg: %w", cause): a plain layer around the cause.
Errorf(msg, cause) == <<Layer(FALSE, "", msg, {})>> \o cause

NewValidationError(msg) == <<Layer(TRUE, ValidationError, msg, {})>>

NewDockerError(msg, cause) == <<Layer(TRUE, DockerError, msg, {})>> \o cause

\* (*AppError).WithContext on the outermost layer.
WithContext(err, key, value) ==
    [err EXCEPT ![1].ctx = {kv \in @ : kv[1] # key} \cup {<<key, value>>}]

\* The type assertion err.(*errors.AppError): the outermost layer only.
IsAppError(err) == err # NoErr /\ err[1].app

\* Whether some layer of the chain is an AppError of the type (errors.As).
ChainHasType(err, type) == \E i \in 1..Len(err) : err[i].app /\ err[i].type = type

\* Error(): "[TYPE] msg: cause" for an AppError, "msg: cause" for a plain layer.
RECURSIVE ErrorString(_)
ErrorString(err) ==
    IF err = NoErr THEN ""
    ELSE LET l    == err[1]
             own  == IF l.app THEN "[" \o l.type \o "] " \o l.msg ELSE l.msg
         IN  IF Len(err) = 1 THEN own ELSE own \o ": " \o ErrorString(Tail(err))

\* FormatUserError for an AppError.
FormatUserError(err, username) ==
    LET what == IF err[1].type = ValidationError THEN " input validation failed: "
                ELSE IF err[1].type = DockerError THEN " Docker operation failed: "
                ELSE " operation failed: "
    IN  "@" \o username \o what \o err[1].msg

(***************************************************************************)
(* internal/docker: platforms.                                             *)
(***************************************************************************)
DefaultUpstream == <<"linux/amd64">>

\* The comparison req == up of both platform loops.
SamePlatformAliased(req, up) ==
    LET canon(p) == IF p = "linux/aarch64" THEN "linux/arm64" ELSE p
    IN  canon(req) = canon(up)

\* A comparison of the architectures alone.
SamePlatformAnyOs(req, up) ==
    Split(req, "/")[Len(Split(req, "/"))] = Split(up, "/")[Len(Split(up, "/"))]

SamePlatform(req, up) == req = up

RECURSIVE filterSupportedPlatforms(_, _)
filterSupportedPlatforms(requested, upstream) ==
    IF Len(requested) = 0 THEN <<>>
    ELSE (IF \E j \in 1..Len(upstream) : SamePlatform(requested[1], upstream[j])
          THEN <<requested[1]>> ELSE <<>>)
         \o filterSupportedPlatforms(Tail(requested), upstream)

RECURSIVE getUnsupportedPlatforms(_, _)
getUnsupportedPlatforms(requested, upstream) ==
    IF Len(requested) = 0 THEN <<>>
    ELSE (IF \E j \in 1..Len(upstream) : SamePlatform(requested[1], upstream[j])
          THEN <<>> ELSE <<requested[1]>>)
         \o getUnsupportedPlatforms(Tail(requested), upstream)

\* cleanArchitectures: drop "unknown" and empty entries, keep first occurrences.
RECURSIVE cleanFrom(_, _)
cleanFrom(architectures, seen) ==
    IF Len(architectures) = 0 THEN <<>>
    ELSE LET arch == architectures[1]
         IN  IF Contains(arch, "unknown") \/ arch = "" \/ arch \in seen
             THEN cleanFrom(Tail(architectures), seen)
             ELSE <<arch>> \o cleanFrom(Tail(architectures), seen \cup {arch})

\* A cleaning that keeps every entry.
cleanArchitecturesKeepAll(architectures) == architectures

cleanArchitectures(architectures) == cleanFrom(architectures, {})

\* A manifest as `docker manifest inspect` prints it: cmd (the command
\* succeeded), json (the output parses), the manifest list entries, and the
\* top-level os and architecture.
RECURSIVE listPlatforms(_)
listPlatforms(manifests) ==
    IF Len(manifests) = 0 THEN <<>>
    ELSE (IF manifests[1].os # "" /\ manifests[1].arch # ""
          THEN <<manifests[1].os \o "/" \o manifests[1].arch>> ELSE <<>>)
         \o listPlatforms(Tail(manifests))

\* parseManifestArchitectures: [err, archs].
parseManifestArchitectures(m) ==
    IF ~m.json THEN [err |-> PlainError("parse manifest failed"), archs |-> <<>>]
    ELSE LET raw == IF Len(m.manifests) > 0 THEN listPlatforms(m.manifests)
                    ELSE IF m.arch # "" /\ m.os # "" THEN <<m.os \o "/" \o m.arch>>
                    ELSE <<>>
             architectures == cleanArchitectures(raw)
         IN  IF Len(architectures) = 0
             THEN [err |-> PlainError("no architecture found"), archs |-> <<>>]
             ELSE [err |-> NoErr, archs |-> architectures]

\* getRemoteImageArchitectures.
inspectImageArchitectures(m) ==
    IF ~m.cmd THEN [err |-> Errorf("cannot inspect manifest", PlainError("exit status 1")),
                    archs |-> <<>>]
    ELSE parseManifestArchitectures(m)

\* The requested list of chooseBuildStrategy: split on "," and trim each part.
RECURSIVE trimEach(_)
trimEach(parts) ==
    IF Len(parts) = 0 THEN <<>> ELSE <<TrimSpace(parts[1])>> \o trimEach(Tail(parts))

RequestedPlatforms(targetPlatforms) == trimEach(Split(targetPlatforms, ","))

\* An architecture text without the line on skipped platforms.
generateArchitectureInfoNoSkip(upstreamArchs, requested, supported) ==
    "architecture info:\n"
    \o "upstream: " \o Join(upstreamArchs, ", ") \o "\n"
    \o "requested: " \o Join(requested, ", ") \o "\n"
    \o "built: " \o Join(supported, ", ") \o "\n"

\* generateArchitectureInfo: the text kept in lastArchInfo.
generateArchitectureInfo(upstreamArchs, requested, supported) ==
    "architecture info:\n"
    \o "upstream: " \o Join(upstreamArchs, ", ") \o "\n"
    \o "requested: " \o Join(requested, ", ") \o "\n"
    \o "built: " \o Join(supported, ", ") \o "\n"
    \o (IF Len(upstreamArchs) = 1 THEN "note: upstream is single-arch\n"
        ELSE "note: upstream is multi-arch\n")
    \o (IF Len(supported) < Len(requested)
        THEN "skipped: " \o Join(getUnsupportedPlatforms(requested, upstreamArchs), ", ")
             \o " (not supported upstream)\n"
        ELSE "")

\* A credential check that looks at the user name only.
hasCredentialsUserOnly(docker) == docker.username # ""

hasCredentials(docker) == docker.username # "" /\ docker.password # ""

\* The branch of chooseBuildStrategy on the count of supported platforms,
\* without its refusal of an empty list.
strategyForAny(supported) == IF Len(supported) = 1 THEN "single" ELSE "buildx"

\* The branch of chooseBuildStrategy on the count of supported platforms.
strategyFor(supported) ==
    IF Len(supported) = 0 THEN "refuse"
    ELSE IF Len(supported) = 1 THEN "single"
    ELSE "buildx"

(***************************************************************************)
(* internal/registry: the post-publish hook chain.  A post-processor is a  *)
(* record: kind "huawei" (HuaweiSWRPostProcessor, with its credentials) or *)
(* kind "stub" (any other implementation of the PostProcessor interface,   *)
(* whose CanProcess answer is can and whose Process fails when fail).      *)
(***************************************************************************)
HuaweiName == "Huawei SWR Public Access Setter"

NewHuaweiSWRPostProcessor(h) ==
    [kind |-> "huawei", name |-> HuaweiName, ak |-> h.ak, sk |-> h.sk,
     can |-> FALSE, fail |-> FALSE]

StubProcessor(name, can, fail) ==
    [kind |-> "stub", name |-> name, ak |-> "", sk |-> "", can |-> can, fail |-> fail]

TrimPrefix(s, p) == IF HasPrefix(s, p) THEN SubSeq(s, Len(p) + 1, Len(s)) ELSE s

isRegistryMatch(registryURL, patterns) ==
    LET cleanURL == TrimPrefix(TrimPrefix(registryURL, "https://"), "http://")
        domain   == Split(cleanURL, "/")[1]
    IN  \E i \in 1..Len(patterns) : Contains(domain, patterns[i])

HuaweiPatterns == <<"swr.", "myhuaweicloud.com">>

\* HuaweiSWRPostProcessor.CanProcess without its credential check.
CanProcessHostOnly(p, imageName, registryURL) ==
    IF p.kind = "huawei" THEN isRegistryMatch(registryURL, HuaweiPatterns) ELSE p.can

CanProcess(p, imageName, registryURL) ==
    IF p.kind = "huawei"
    THEN /\ isRegistryMatch(registryURL, HuaweiPatterns)
         /\ ~(p.ak = "" \/ p.sk = "")
    ELSE p.can

\* HuaweiSWRPostProcessor.parseImageName: [err, namespace, repository].
parseImageName(imageName) ==
    LET parts == Split(imageName, "/")
        bad(msg) == [err |-> PlainError(msg), namespace |-> "", repository |-> ""]
    IN  IF Len(parts) < 2 THEN bad("invalid Huawei SWR image name format")
        ELSE LET swr == Len(parts) >= 3 /\ Contains(parts[1], "myhuaweicloud.com")
                 ns  == IF swr THEN parts[2] ELSE parts[1]
                 rp  == IF swr THEN Split(parts[3], ":")[1] ELSE Split(parts[2], ":")[1]
             IN  IF ns = "" \/ rp = "" THEN bad("failed to extract namespace and repository")
                 ELSE [err |-> NoErr, namespace |-> ns, repository |-> rp]

\* PostProcessor.Process; setImagePublic is a placeholder that returns nil.
Process(p, imageName, registryURL) ==
    IF p.kind = "huawei"
    THEN LET parsed == parseImageName(imageName)
         IN  IF parsed.err # NoErr THEN Errorf("failed to parse image name", parsed.err)
             ELSE NoErr
    ELSE IF p.fail THEN PlainError("hook failed") ELSE NoErr

\* The loop of PostProcessorManager.ProcessImage: the names of the processors
\* whose Process was called, in call order, the collected error messages and
\* the count of those that succeeded.
RECURSIVE runProcessors(_, _, _)
runProcessors(ps, imageName, registryURL) ==
    IF Len(ps) = 0 THEN [calls |-> <<>>, errors |-> <<>>, processed |-> 0]
    ELSE LET p    == ps[1]
             rest == runProcessors(Tail(ps), imageName, registryURL)
         IN  IF CanProcess(p, imageName, registryURL)
             THEN LET err == Process(p, imageName, registryURL)
                  IN  [calls     |-> <<p.name>> \o rest.calls,
                       errors    |-> (IF err # NoErr
                                      THEN <<"Post-processor " \o p.name \o " failed: "
                                             \o ErrorString(err)>>
                                      ELSE <<>>) \o rest.errors,
                       processed |-> (IF err = NoErr THEN 1 ELSE 0) + rest.processed]
             ELSE rest

\* A manager that stops at the first failing processor and returns its error.
RECURSIVE runUntilError(_, _, _)
runUntilError(ps, imageName, registryURL) ==
    IF Len(ps) = 0 THEN [calls |-> <<>>, errors |-> <<>>, processed |-> 0, ret |-> NoErr]
    ELSE LET p == ps[1]
         IN  IF CanProcess(p, imageName, registryURL)
             THEN LET err == Process(p, imageName, registryURL)
                  IN  IF err # NoErr
                      THEN [calls |-> <<p.name>>, errors |-> <<ErrorString(err)>>,
                            processed |-> 0, ret |-> err]
                      ELSE LET rest == runUntilError(Tail(ps), imageName, registryURL)
                           IN  [rest EXCEPT !.calls = <<p.name>> \o @,
                                            !.processed = @ + 1]
             ELSE runUntilError(Tail(ps), imageName, registryURL)

ManagerProcessImageAborting(ps, imageName, registryURL) ==
    runUntilError(ps, imageName, registryURL)

\* PostProcessorManager.ProcessImage: the loop's record and the return value.
ManagerProcessImage(ps, imageName, registryURL) ==
    LET r == runProcessors(ps, imageName, registryURL)
    IN  [calls |-> r.calls, errors |-> r.errors, processed |-> r.processed, ret |-> NoErr]

\* PostProcessorFactory.CreateManager: the registered processors.
CreateManager(c) ==
    IF c.huawei.present
    THEN (IF c.huawei.ak # "" /\ c.huawei.sk # ""
          THEN <<NewHuaweiSWRPostProcessor(c.huawei)>>
          ELSE <<>>)
    ELSE <<>>

\* extractRegistryURL: strings.Split never returns an empty slice.
extractRegistryURL(imageName) == Split(imageName, "/")[1]

(***************************************************************************)
(* internal/config and cmd/sync: the configuration.                        *)
(***************************************************************************)
NoGeneric == [present |-> FALSE, registry |-> "", namespace |-> "",
              username |-> "", password |-> ""]

Generic(registry, namespace, username, password) ==
    [present |-> TRUE, registry |-> registry, namespace |-> namespace,
     username |-> username, password |-> password]

NoHuawei == [present |-> FALSE, ak |-> "", sk |-> "", region |-> ""]

Huawei(ak, sk, region) == [present |-> TRUE, ak |-> ak, sk |-> sk, region |-> region]

DefaultPlatforms == "linux/amd64,linux/arm64"

DefaultRules ==
    {<<"^gcr.io", "">>, <<"^docker.io", "docker">>, <<"^k8s.gcr.io", "google-containers">>,
     <<"^registry.k8s.io", "google-containers">>, <<"^quay.io", "quay">>,
     <<"^ghcr.io", "ghcr">>}

\* github: where the GitHub token comes from, "env" (file or environment) or
\* "flag" (the command line only, applied after LoadConfig).
Config(github, generic, huawei) ==
    [github |-> github, generic |-> generic, huawei |-> huawei,
     platforms |-> DefaultPlatforms, rules |-> DefaultRules]

DefaultConfig == Config("flag", NoGeneric, NoHuawei)

\* validateConfig: the message of the error, "" for nil.
validateConfig(c) ==
    IF c.github # "env" THEN "GitHub token is required"
    ELSE IF c.huawei.present /\ c.huawei.ak = ""
    THEN "Huawei SWR config validation failed: access key is required"
    ELSE IF c.huawei.present /\ c.huawei.sk = ""
    THEN "Huawei SWR config validation failed: secret key is required"
    ELSE IF c.huawei.present /\ c.huawei.region = ""
    THEN "Huawei SWR config validation failed: region is required"
    ELSE IF c.generic.present /\ c.generic.registry = ""
    THEN "Generic registry config validation failed: registry is required when generic config is provided"
    ELSE ""

\* createBuilderConfig: the builder's registry settings.
createBuilderConfig(c) ==
    IF c.generic.present
    THEN [registry |-> c.generic.registry, namespace |-> c.generic.namespace,
          username |-> c.generic.username, password |-> c.generic.password,
          platforms |-> c.platforms]
    ELSE [registry |-> "", namespace |-> "", username |-> "", password |-> "",
          platforms |-> c.platforms]

getRegistryAddress(docker) == IF docker.registry = "" THEN "Docker Hub" ELSE docker.registry

\* A validation that looks at the source reference only.
ValidateSourceOnly(source, target) ==
    IF source = "" THEN NewValidationError("source image name is empty")
    ELSE IF ~IsValidImageName(source)
    THEN NewValidationError("invalid source image name: " \o source)
    ELSE NoErr

\* ImageTransformer.ValidateTransformation.
ValidateTransformation(source, target) ==
    IF source = "" THEN NewValidationError("source image name is empty")
    ELSE IF target = "" THEN NewValidationError("target image name is empty")
    ELSE IF ~IsValidImageName(source)
    THEN NewValidationError("invalid source image name: " \o source)
    ELSE IF ~IsValidImageName(target)
    THEN NewValidationError("invalid target image name: " \o target)
    ELSE NoErr

(***************************************************************************)
(* The inputs of a run.                                                    *)
(***************************************************************************)
SwrHost == "swr.cn-north-4.myhuaweicloud.com"

Configs ==
    {Config("env", Generic(SwrHost, "mirror", "user", "secret"), Huawei("ak", "sk", "cn-north-4")),
     Config("env", Generic(SwrHost, "mirror", "user", "secret"), NoHuawei),
     Config("env", Generic("registry.example.com", "test", "", ""), NoHuawei),
     Config("env", Generic("registry.example.com", "", "user", ""), Huawei("ak", "sk", "cn-north-4")),
     Config("env", Generic("registry.example.com", "my team", "user", "secret"), NoHuawei),
     Config("env", NoGeneric, NoHuawei),
     Config("env", Generic(SwrHost, "mirror", "user", "secret"), Huawei("ak", "", "cn-north-4")),
     Config("flag", Generic(SwrHost, "mirror", "user", "secret"), NoHuawei)}

Titles ==
    {"[PORTER] gcr.io/google-containers/pause:3.2",
     "[PORTER] nginx:latest | linux/amd64",
     "[PORTER]k8s.gcr.io/pause:3.2|linux/amd64, linux/arm64",
     "[PORTER] mcr.example.com/dotnet/sdk:8 | linux/amd64",
     "[PORTER] quay.io/coreos/etcd:v3 | linux/amd64,linux/amd64",
     "[PORTER] ghcr.io/org/tool:1 | linux/aarch64",
     "[PORTER] gcr.io/distroless/base:1 | linux/amd64,windows/amd64",
     "[PORTER] nginx; rm -rf /",
     "[PORTER] " \o Repeat("a", 250)}

Entry(os, arch) == [os |-> os, arch |-> arch]

Manifest(cmd, json, manifests, os, arch) ==
    [cmd |-> cmd, json |-> json, manifests |-> manifests, os |-> os, arch |-> arch]

Manifests ==
    {Manifest(FALSE, FALSE, <<>>, "", ""),
     Manifest(TRUE, FALSE, <<>>, "", ""),
     Manifest(TRUE, TRUE, <<Entry("linux", "amd64"), Entry("linux", "arm64")>>, "", ""),
     Manifest(TRUE, TRUE, <<Entry("linux", "amd64"), Entry("unknown", "unknown"),
                            Entry("linux", "amd64"), Entry("linux", ""),
                            Entry("linux", "ppc64le")>>, "", ""),
     Manifest(TRUE, TRUE, <<Entry("linux", "arm64"), Entry("windows", "amd64")>>, "", ""),
     Manifest(TRUE, TRUE, <<Entry("unknown", "unknown")>>, "", ""),
     Manifest(TRUE, TRUE, <<>>, "linux", "amd64"),
     Manifest(TRUE, TRUE, <<>>, "", "")}

(***************************************************************************)
(* The state of one process run.                                           *)
(***************************************************************************)
VARIABLES
    pc,                 \* the step the run is at
    cfg,                \* the configuration: as given, then as loaded
    daemon,             \* the Docker daemon's buildx builders and the active one
    setup,              \* the position of each run that sets up a buildx builder
    openIssues,         \* the titles of the open porter issues, newest first
    title,              \* the title of the issue being processed
    events,             \* the external calls made so far: [op, ok]
    originalImage,      \* ProcessIssue's image name
    platform,           \* ProcessIssue's platform text
    sourceImage,        \* processSingleIssue's sourceImage
    targetImage,        \* processSingleIssue's targetImage
    syncErr,            \* processSingleIssue's syncErr
    upstreamArchs,      \* BuildAndPush's upstreamArchs
    probeErr,           \* the error of inspectImageArchitectures
    requestedPlatforms, \* chooseBuildStrategy's requestedPlatforms
    supportedPlatforms, \* chooseBuildStrategy's supportedPlatforms
    strategy,           \* "none", "single" or "buildx"
    buildPlatform,      \* the platform text handed to the build executor
    lastArchInfo,       \* SDKBuilder.lastArchInfo
    dockerfile,         \* whether ./Dockerfile exists
    processors,         \* PostProcessorManager.processors
    hookResult,         \* what PostProcessorManager.ProcessImage did and returned
    report,             \* generateResult's data
    runErr,             \* the error ProcessIssues returns to main
    exitCode,           \* the exit code of the process, -1 while it runs
    cleaned             \* whether SDKBuilder.Cleanup has run

vars == <<pc, cfg, daemon, setup, openIssues, title, events, originalImage, platform, sourceImage, targetImage,
          syncErr, upstreamArchs, probeErr, requestedPlatforms, supportedPlatforms,
          strategy, buildPlatform, lastArchInfo, dockerfile, processors, hookResult,
          report, runErr, exitCode, cleaned>>

Ev(op, ok) == [op |-> op, ok |-> ok]

NoHookResult == [calls |-> <<>>, errors |-> <<>>, processed |-> 0, ret |-> NoErr]

NoReport ==
    [rendered |-> FALSE, success |-> FALSE, sourceImage |-> "", targetImage |-> "",
     platform |-> "", errorMessage |-> "", errorDetails |-> "", errorContext |-> {},
     architectureInfo |-> "", text |-> <<>>]

Range(seq) == {seq[i] : i \in 1..Len(seq)}

(***************************************************************************)
(* The buildx builders of the Docker daemon, as the docker CLI lists,      *)
(* creates and selects them.                                               *)
(***************************************************************************)
BuilderName == "multiplatform-builder"

Builder(name, driver) == [name |-> name, driver |-> driver]

Daemon(builders, active) == [builders |-> builders, active |-> active]

DefaultDaemon == Daemon(<<Builder("default", "docker")>>, "default")

Daemons ==
    {DefaultDaemon,
     Daemon(<<Builder("default", "docker"), Builder(BuilderName, "docker-container")>>,
            BuilderName),
     Daemon(<<Builder("default", "docker"), Builder(BuilderName, "docker-container")>>,
            "default"),
     Daemon(<<Builder("default", "docker"), Builder("cluster", "kubernetes")>>, "cluster")}

\* hasMultiPlatformBuilder on the listing: the line marked active names the
\* docker-container or the kubernetes driver.
hasMultiPlatformBuilder(d) ==
    \E i \in 1..Len(d.builders) :
        /\ d.builders[i].name = d.active
        /\ d.builders[i].driver \in {"docker-container", "kubernetes"}

\* What checkBuildxEnvironment reads off a listing that succeeded.
buildxLs(d) == IF hasMultiPlatformBuilder(d) THEN "multi" ELSE "single"

\* docker buildx create --name multiplatform-builder --use: refused with
\* "already exists" when the name is taken, else the builder is added and
\* made the active one.
buildxCreate(d) ==
    IF \E i \in 1..Len(d.builders) : d.builders[i].name = BuilderName
    THEN [daemon |-> d, out |-> "exists"]
    ELSE [daemon |-> Daemon(Append(d.builders, Builder(BuilderName, "docker-container")),
                            BuilderName),
          out    |-> "ok"]

\* docker buildx use multiplatform-builder.
buildxUse(d) == [d EXCEPT !.active = BuilderName]

\* The daemon after the commands of one checkBuildxEnvironment.
daemonAfter(d, cmds) ==
    IF [op |-> "buildx.create", ok |-> TRUE] \in Range(cmds) THEN buildxCreate(d).daemon
    ELSE IF [op |-> "buildx.use", ok |-> TRUE] \in Range(cmds) THEN buildxUse(d)
    ELSE d

\* The runs that set up a builder on one daemon.
Runs == {"first", "second"}

IdleSetup == [r \in Runs |-> [pc |-> "idle", ls |-> ""]]

Blank ==
    /\ setup = IdleSetup
    /\ events = <<>>
    /\ originalImage = ""
    /\ platform = ""
    /\ sourceImage = ""
    /\ targetImage = ""
    /\ syncErr = NoErr
    /\ upstreamArchs = <<>>
    /\ probeErr = NoErr
    /\ requestedPlatforms = <<>>
    /\ supportedPlatforms = <<>>
    /\ strategy = "none"
    /\ buildPlatform = ""
    /\ lastArchInfo = ""
    /\ dockerfile = FALSE
    /\ processors = <<>>
    /\ hookResult = NoHookResult
    /\ report = NoReport
    /\ runErr = NoErr
    /\ exitCode = -1
    /\ cleaned = FALSE

\* What the repository holds when the run starts: nothing, one request, or a
\* newer request in front of an older one.
IssueLists ==
    {<<>>}
    \cup {<<t>> : t \in Titles}
    \cup {<<"[PORTER] nginx:latest | linux/amd64", "[PORTER] gcr.io/google-containers/pause:3.2">>,
          <<"[PORTER] ghcr.io/org/tool:1 | linux/aarch64", "[PORTER] nginx; rm -rf /">>}

Init ==
    /\ pc = "loadConfig"
    /\ cfg \in Configs
    /\ daemon \in Daemons
    /\ openIssues \in IssueLists
    /\ title = ""
    /\ Blank

Docker == createBuilderConfig(cfg)

\* A BuildAndPush that goes on to the probe whatever the login returned.
afterLoginAlways(err) == "probe"

\* BuildAndPush after ensureDockerLogin: return on an error, else go on.
afterLogin(err) == IF err # NoErr THEN "report" ELSE "probe"

\* syncImage's wrapping of BuildAndPush's error.
BuildPushError(err) == Errorf("Docker build and push failed", err)

(***************************************************************************)
(* main: loadConfig and createApp.                                         *)
(***************************************************************************)
\* loadConfigWithoutValidation: a missing token is forgiven, and the run goes
\* on with the default configuration; any other error ends the process.
LoadConfig ==
    /\ pc = "loadConfig"
    /\ LET msg == validateConfig(cfg)
       IN  IF msg = ""
           THEN pc' = "createApp" /\ UNCHANGED <<cfg, exitCode>>
           ELSE IF msg = "GitHub token is required"
           THEN pc' = "createApp" /\ cfg' = DefaultConfig /\ UNCHANGED exitCode
           ELSE pc' = "done" /\ exitCode' = 1 /\ UNCHANGED cfg
    /\ UNCHANGED <<daemon, setup, openIssues, runErr, title, events, originalImage, platform, sourceImage, targetImage,
                   syncErr, upstreamArchs, probeErr, requestedPlatforms,
                   supportedPlatforms, strategy, buildPlatform, lastArchInfo,
                   dockerfile, processors, hookResult, report, cleaned>>

\* createApp: NewBuilder panics when the Docker daemon cannot be reached.
CreateApp ==
    /\ pc = "createApp"
    /\ \E dockerOk \in BOOLEAN :
          /\ events' = Append(events, Ev("docker.ping", dockerOk))
          /\ IF dockerOk
             THEN pc' = "fetch" /\ UNCHANGED exitCode
             ELSE pc' = "done" /\ exitCode' = 2
    /\ UNCHANGED <<daemon, setup, openIssues, runErr, cfg, title, originalImage, platform, sourceImage, targetImage,
                   syncErr, upstreamArchs, probeErr, requestedPlatforms,
                   supportedPlatforms, strategy, buildPlatform, lastArchInfo,
                   dockerfile, processors, hookResult, report, cleaned>>

(***************************************************************************)
(* DefaultSyncService.ProcessIssues up to the call of processSingleIssue.  *)
(***************************************************************************)
PerPage == 1

\* A listing that returns the oldest requests.
GetOldestIssues(open) ==
    IF Len(open) <= PerPage THEN open ELSE SubSeq(open, Len(open) - PerPage + 1, Len(open))

\* GetPendingIssues: the first page, of PerPage entries, of the open porter
\* issues sorted by creation, newest first.
GetPendingIssues(open) ==
    IF Len(open) <= PerPage THEN open ELSE SubSeq(open, 1, PerPage)

\* ProcessIssues: the fetch, and issues[0] handed to processSingleIssue.
ProcessIssues ==
    /\ pc = "fetch"
    /\ \E listOk \in BOOLEAN :
          LET issues == GetPendingIssues(openIssues)
          IN  /\ events' = Append(events, Ev("issues.list", listOk))
              /\ pc' = IF listOk /\ Len(issues) > 0 THEN "processIssue" ELSE "return"
              /\ title' = IF listOk /\ Len(issues) > 0 THEN issues[1] ELSE title
              /\ runErr' = IF ~listOk
                           THEN Errorf("fetching pending issues failed", PlainError("github"))
                           ELSE NoErr
    /\ UNCHANGED <<daemon, setup, openIssues, cfg, originalImage, platform, sourceImage, targetImage,
                   syncErr, upstreamArchs, probeErr, requestedPlatforms, supportedPlatforms,
                   strategy, buildPlatform, lastArchInfo, dockerfile, processors,
                   hookResult, report, exitCode, cleaned>>

(***************************************************************************)
(* IssueProcessor.ProcessIssue: the progress comment, whose failure is     *)
(* only logged, then the title.                                            *)
(***************************************************************************)
ProcessIssue ==
    /\ pc = "processIssue"
    /\ \E commentOk \in BOOLEAN :
          events' = Append(events, Ev("comment.progress", commentOk))
    /\ LET parsed == ParseIssueTitle(title)
       IN  IF ~IsValidImageName(parsed[1])
           THEN /\ syncErr' = NewValidationError("invalid image name: " \o parsed[1])
                /\ originalImage' = ""
                /\ platform' = ""
                /\ pc' = "report"
           ELSE /\ originalImage' = SanitizeString(parsed[1])
                /\ platform' = SanitizeString(parsed[2])
                /\ syncErr' = NoErr
                /\ pc' = "transform"
    /\ UNCHANGED <<daemon, setup, openIssues, runErr, cfg, title, sourceImage, targetImage, upstreamArchs, probeErr,
                   requestedPlatforms, supportedPlatforms, strategy, buildPlatform,
                   lastArchInfo, dockerfile, processors, hookResult, report, exitCode,
                   cleaned>>

(***************************************************************************)
(* syncImage up to the call of BuildAndPush: Transform, which never        *)
(* returns an error, and ValidateTransformation.                           *)
(***************************************************************************)
TransformAndValidate ==
    /\ pc = "transform"
    /\ LET registry  == IF cfg.generic.present THEN cfg.generic.registry ELSE ""
           namespace == IF cfg.generic.present THEN cfg.generic.namespace ELSE ""
           source    == NormalizeImageName(originalImage)
       IN  \E transformedName \in TransformImageName(source, cfg.rules) :
              LET target == BuildTargetImageName(transformedName, registry, namespace)
                  err    == ValidateTransformation(source, target)
              IN  /\ sourceImage' = source
                  /\ targetImage' = target
                  /\ IF err # NoErr
                     THEN /\ syncErr' = Errorf("image name validation failed", err)
                          /\ pc' = "report"
                     ELSE /\ syncErr' = NoErr
                          /\ pc' = "login"
    /\ UNCHANGED <<daemon, setup, openIssues, runErr, cfg, title, events, originalImage, platform, upstreamArchs, probeErr,
                   requestedPlatforms, supportedPlatforms, strategy, buildPlatform,
                   lastArchInfo, dockerfile, processors, hookResult, report, exitCode,
                   cleaned>>

(***************************************************************************)
(* SDKBuilder.BuildAndPush, step by step.                                  *)
(***************************************************************************)
\* SDKBuilder.Login's error.
SdkLoginError ==
    WithContext(WithContext(NewDockerError("Docker SDK login failed", PlainError("unauthorized")),
                            "registry", getRegistryAddress(Docker)),
                "username", Docker.username)

\* ensureDockerLogin: nothing without credentials; else the SDK login and
\* then the CLI login.
EnsureDockerLogin ==
    /\ pc = "login"
    /\ IF ~hasCredentials(Docker)
       THEN /\ pc' = "probe"
            /\ UNCHANGED <<events, syncErr>>
       ELSE \E outcome \in {"ok", "sdkFails", "cliFails"} :
               LET err == CASE outcome = "sdkFails" ->
                                 Errorf("Docker SDK login failed", SdkLoginError)
                            [] outcome = "cliFails" ->
                                 Errorf("CLI Docker login failed", PlainError("exit status 1"))
                            [] OTHER -> NoErr
               IN  /\ events' = events
                         \o <<Ev("login.sdk", outcome # "sdkFails")>>
                         \o (IF outcome = "sdkFails" THEN <<>>
                             ELSE <<Ev("login.cli", outcome = "ok")>>)
                   /\ syncErr' = IF err = NoErr THEN NoErr
                                 ELSE BuildPushError(Errorf("Docker login failed", err))
                   /\ pc' = afterLogin(err)
    /\ UNCHANGED <<daemon, setup, openIssues, runErr, cfg, title, originalImage, platform, sourceImage, targetImage,
                   upstreamArchs, probeErr, requestedPlatforms, supportedPlatforms,
                   strategy, buildPlatform, lastArchInfo, dockerfile, processors,
                   hookResult, report, exitCode, cleaned>>

\* A BuildAndPush that keeps what a failed probe returned.
upstreamAsProbed(r) == r.archs

\* BuildAndPush after inspectImageArchitectures: the default on an error.
upstreamOrDefault(r) == IF r.err # NoErr THEN DefaultUpstream ELSE r.archs

\* inspectImageArchitectures, and the default when it fails.
InspectArchitectures ==
    /\ pc = "probe"
    /\ \E m \in Manifests :
          LET r == inspectImageArchitectures(m)
          IN  /\ events' = Append(events, Ev("manifest.inspect", r.err = NoErr))
              /\ probeErr' = r.err
              /\ upstreamArchs' = upstreamOrDefault(r)
    /\ pc' = "strategy"
    /\ UNCHANGED <<daemon, setup, openIssues, runErr, cfg, title, originalImage, platform, sourceImage, targetImage,
                   syncErr, requestedPlatforms, supportedPlatforms, strategy,
                   buildPlatform, lastArchInfo, dockerfile, processors, hookResult,
                   report, exitCode, cleaned>>

\* chooseBuildStrategy up to the call of buildSingleArch or buildWithBuildx.
ChooseBuildStrategy ==
    /\ pc = "strategy"
    /\ LET targetPlatforms == IF platform # "" THEN platform ELSE Docker.platforms
           requested       == RequestedPlatforms(targetPlatforms)
           supported       == filterSupportedPlatforms(requested, upstreamArchs)
       IN  /\ requestedPlatforms' = requested
           /\ supportedPlatforms' = supported
           /\ IF strategyFor(supported) = "refuse"
              THEN /\ syncErr' = BuildPushError(NewValidationError(
                         "upstream supports none of the requested platforms"))
                   /\ pc' = "report"
                   /\ UNCHANGED <<lastArchInfo, strategy>>
              ELSE /\ lastArchInfo' =
                         generateArchitectureInfo(upstreamArchs, requested, supported)
                   /\ strategy' = strategyFor(supported)
                   /\ pc' = IF strategyFor(supported) = "single" THEN "buildSingle"
                            ELSE "buildx"
                   /\ UNCHANGED syncErr
    /\ UNCHANGED <<daemon, setup, openIssues, runErr, cfg, title, events, originalImage, platform, sourceImage,
                   targetImage, upstreamArchs, probeErr, buildPlatform, dockerfile,
                   processors, hookResult, report, exitCode, cleaned>>

\* A syncImage that post-processes whatever BuildAndPush returned.
afterBuildAndPushAlways(err) == "postProcess"

\* syncImage after BuildAndPush: return on an error, else
\* processImageWithDynamicRegistry.
afterBuildAndPush(err) == IF err # NoErr THEN "report" ELSE "postProcess"

\* buildSingleArch: the build context, ImageBuild for the one platform, the
\* build output, the push.
BuildSingleArch ==
    /\ pc = "buildSingle"
    /\ LET plat == supportedPlatforms[1]
       IN  \E outcome \in {"ok", "contextFails", "buildFails", "outputFails", "pushFails"} :
              /\ events' = events \o
                    (CASE outcome = "contextFails" -> <<>>
                       [] outcome = "buildFails"   -> <<Ev("image.build", FALSE)>>
                       [] outcome = "outputFails"  -> <<Ev("image.build", TRUE),
                                                        Ev("build.output", FALSE)>>
                       [] outcome = "pushFails"    -> <<Ev("image.build", TRUE),
                                                        Ev("build.output", TRUE),
                                                        Ev("image.push", FALSE)>>
                       [] OTHER                    -> <<Ev("image.build", TRUE),
                                                        Ev("build.output", TRUE),
                                                        Ev("image.push", TRUE)>>)
              /\ buildPlatform' = IF outcome = "contextFails" THEN buildPlatform ELSE plat
              /\ syncErr' =
                    CASE outcome = "contextFails" ->
                           BuildPushError(NewDockerError("creating build context failed",
                                                         PlainError("tar")))
                      [] outcome = "buildFails" ->
                           BuildPushError(
                             WithContext(WithContext(WithContext(
                               NewDockerError("Docker SDK build failed", PlainError("daemon")),
                               "source_image", sourceImage),
                               "target_image", targetImage),
                               "platform", plat))
                      [] outcome = "outputFails" ->
                           BuildPushError(NewDockerError("reading build output failed",
                                                         PlainError("build error")))
                      [] outcome = "pushFails" ->
                           BuildPushError(
                             WithContext(NewDockerError("pushing image failed",
                                                        PlainError("denied")),
                                         "target_image", targetImage))
                      [] OTHER -> NoErr
              /\ pc' = afterBuildAndPush(syncErr')
    /\ UNCHANGED <<daemon, setup, openIssues, runErr, cfg, title, originalImage, platform, sourceImage, targetImage,
                   upstreamArchs, probeErr, requestedPlatforms, supportedPlatforms,
                   strategy, lastArchInfo, dockerfile, processors, hookResult, report,
                   exitCode, cleaned>>

\* checkBuildxEnvironment and ensureMultiPlatformBuilder: the commands run and
\* the error returned, for the given answers of the docker CLI.
ensureMultiPlatformBuilder(create, use, bootstrap) ==
    IF create = "fails"
    THEN [cmds |-> <<Ev("buildx.create", FALSE)>>,
          err  |-> Errorf("creating buildx builder failed", PlainError("exit status 1"))]
    ELSE IF create = "exists" /\ ~use
    THEN [cmds |-> <<Ev("buildx.create", FALSE), Ev("buildx.use", FALSE)>>,
          err  |-> Errorf("using existing builder failed", PlainError("exit status 1"))]
    ELSE [cmds |-> (IF create = "exists"
                    THEN <<Ev("buildx.create", FALSE), Ev("buildx.use", TRUE)>>
                    ELSE <<Ev("buildx.create", TRUE)>>)
                   \o <<Ev("buildx.bootstrap", bootstrap)>>,
          err  |-> NoErr]

\* A check that goes on to create a builder whatever the listing showed.
afterLsAlwaysCreate(ls) == "create"

\* checkBuildxEnvironment after the listing: done when it shows an active
\* multi-platform builder, else ensureMultiPlatformBuilder.
afterLs(ls) == IF ls = "multi" THEN "done" ELSE "create"

checkBuildxEnvironment(version, ls, create, use, bootstrap) ==
    IF ~version
    THEN [cmds |-> <<Ev("buildx.version", FALSE)>>,
          err  |-> Errorf("buildx unavailable", PlainError("exit status 1"))]
    ELSE IF afterLs(ls) = "done"
    THEN [cmds |-> <<Ev("buildx.version", TRUE), Ev("buildx.ls", TRUE)>>, err |-> NoErr]
    ELSE LET e == ensureMultiPlatformBuilder(create, use, bootstrap)
         IN  [cmds |-> <<Ev("buildx.version", TRUE), Ev("buildx.ls", ls # "fails")>> \o e.cmds,
              err  |-> e.err]

\* buildWithBuildx: WriteDockerfile, the deferred cleanupDockerfile,
\* checkBuildxEnvironment and execBuildxCommand, which builds and pushes.
BuildWithBuildx ==
    /\ pc = "buildx"
    /\ \E write \in {"ok", "createFails", "writeFails"}, version, use, bootstrap, build \in BOOLEAN,
          ls \in {"fails", buildxLs(daemon)}, create \in {"fails", buildxCreate(daemon).out} :
          LET env == checkBuildxEnvironment(version, ls, create, use, bootstrap)
          IN  IF write # "ok"
              THEN /\ dockerfile' = (write = "writeFails")
                   /\ daemon' = daemon
                   /\ syncErr' = BuildPushError(Errorf(
                         IF write = "createFails" THEN "creating Dockerfile failed"
                         ELSE "writing Dockerfile failed", PlainError("io")))
                   /\ pc' = afterBuildAndPush(syncErr')
                   /\ UNCHANGED <<events, buildPlatform>>
              ELSE IF env.err # NoErr
              THEN /\ dockerfile' = FALSE
                   /\ daemon' = daemonAfter(daemon, env.cmds)
                   /\ events' = events \o env.cmds
                   /\ syncErr' = BuildPushError(Errorf("buildx environment check failed",
                                                       env.err))
                   /\ pc' = afterBuildAndPush(syncErr')
                   /\ UNCHANGED buildPlatform
              ELSE /\ dockerfile' = FALSE
                   /\ daemon' = daemonAfter(daemon, env.cmds)
                   /\ events' = events \o env.cmds \o <<Ev("buildx.build", build)>>
                   /\ buildPlatform' = SanitizeString(Join(supportedPlatforms, ","))
                   /\ syncErr' = IF build THEN NoErr
                                 ELSE BuildPushError(Errorf("buildx command failed",
                                                            PlainError("exit status 1")))
                   /\ pc' = afterBuildAndPush(syncErr')
    /\ UNCHANGED <<setup, openIssues, runErr, cfg, title, originalImage, platform, sourceImage, targetImage,
                   upstreamArchs, probeErr, requestedPlatforms, supportedPlatforms,
                   strategy, lastArchInfo, processors, hookResult, report, exitCode,
                   cleaned>>

(***************************************************************************)
(* syncImage after the push: processImageWithDynamicRegistry.              *)
(***************************************************************************)
RECURSIVE HookEvents(_)
HookEvents(calls) ==
    IF Len(calls) = 0 THEN <<>>
    ELSE <<Ev("hook." \o calls[1], TRUE)>> \o HookEvents(Tail(calls))

\* EnhancedGenericProcessor.ProcessImage: the manager's record; the processor
\* itself only logs the manager's error and returns nil.
EnhancedProcessImage(ps, imageName, registry) ==
    [mgr |-> ManagerProcessImage(ps, imageName, registry), ret |-> NoErr]

\* The rest of syncImage once the registry processor has returned.
AfterProcessImage(ret) ==
    IF ret # NoErr
    THEN Errorf("setting image permission failed", Errorf("processing image failed", ret))
    ELSE NoErr

\* CreateProcessor builds the processor for the configuration: the enhanced
\* one with a fresh manager when a generic registry is configured, else the
\* basic one, which does nothing.
ProcessImageWithDynamicRegistry ==
    /\ pc = "postProcess"
    /\ LET ps == IF cfg.generic.present THEN CreateManager(cfg) ELSE <<>>
           r  == IF cfg.generic.present
                 THEN EnhancedProcessImage(ps, targetImage, cfg.generic.registry)
                 ELSE [mgr |-> NoHookResult, ret |-> NoErr]
       IN  /\ processors' = ps
           /\ hookResult' = r.mgr
           /\ events' = events \o HookEvents(r.mgr.calls)
           /\ syncErr' = AfterProcessImage(r.ret)
    /\ pc' = "report"
    /\ UNCHANGED <<daemon, setup, openIssues, runErr, cfg, title, originalImage, platform, sourceImage, targetImage,
                   upstreamArchs, probeErr, requestedPlatforms, supportedPlatforms,
                   strategy, buildPlatform, lastArchInfo, dockerfile, report, exitCode,
                   cleaned>>

(***************************************************************************)
(* processSingleIssue after syncImage: generateResult, FinishIssue and the *)
(* return to main.                                                         *)
(***************************************************************************)
GitHubUser == "octocat"

\* formatErrorDetails without its context lines, which are kept as a set:
\* the source writes them in map order.
formatErrorDetails(appErr) ==
    "error type: " \o appErr[1].type \o "\n"
    \o "error message: " \o appErr[1].msg \o "\n"
    \o (IF Len(appErr) > 1 THEN "cause: " \o ErrorString(Tail(appErr)) \o "\n" ELSE "")

GitHubRepo == "sync_image"

GitHubRunID == "42"

\* The link to the build log that closes both branches of the template.
BuildLogLink ==
    "[build log](https://github.com/" \o GitHubUser \o "/" \o GitHubRepo
    \o "/actions/runs/" \o GitHubRunID \o ")"

SuccessHeader == "**conversion complete**"

FailureHeader == "**conversion failed**"

PullCommand(data) ==
    "docker pull " \o data.targetImage
    \o (IF data.platform # "" THEN " --platform " \o data.platform ELSE "")

TagCommand(data) == "docker tag " \o data.targetImage \o " " \o data.sourceImage

\* A template whose failure branch ends before the link.
renderTemplateLinkOnSuccess(data) ==
    IF data.success
    THEN <<SuccessHeader, "# bash", PullCommand(data), TagCommand(data), BuildLogLink>>
    ELSE <<FailureHeader>>

\* renderTemplate: the lines of the rendered template, its empty lines left
\* out. Executing the template on a ResultData cannot fail.
renderTemplate(data) ==
    IF data.success
    THEN <<SuccessHeader,
           "# bash",
           "# source image", data.sourceImage,
           "# target image", data.targetImage,
           "# pull and rename",
           PullCommand(data),
           TagCommand(data),
           "docker images | grep $(echo " \o data.sourceImage \o " | awk -F':' '{print $1}')",
           "# end">>
         \o (IF data.architectureInfo # "" THEN <<data.architectureInfo>> ELSE <<>>)
         \o <<"---", BuildLogLink>>
    ELSE <<FailureHeader>>
         \o (IF data.errorMessage # "" THEN <<"**reason**: " \o data.errorMessage>> ELSE <<>>)
         \o (IF data.errorDetails # ""
              THEN <<"**error details**:", "# block", data.errorDetails, "# end">>
              ELSE <<>>)
         \o (IF data.architectureInfo # ""
              THEN <<"**architecture info**:", data.architectureInfo>>
              ELSE <<>>)
         \o <<"---", "**advice**:", "1. check the image name",
              "2. check that the upstream image exists", "3. read the build log",
              BuildLogLink>>

\* The ResultData that generateResult fills in.
ResultData(source, target, plat, success, err, archInfo) ==
    [rendered         |-> TRUE,
     success          |-> success,
     sourceImage      |-> source,
     targetImage      |-> target,
     platform         |-> plat,
     errorMessage     |-> IF success \/ err = NoErr THEN ""
                          ELSE IF IsAppError(err) THEN FormatUserError(err, GitHubUser)
                          ELSE "operation failed: " \o ErrorString(err),
     errorDetails     |-> IF success \/ err = NoErr THEN ""
                          ELSE IF IsAppError(err) THEN formatErrorDetails(err)
                          ELSE ErrorString(err),
     errorContext     |-> IF ~success /\ IsAppError(err) THEN err[1].ctx ELSE {},
     architectureInfo |-> archInfo,
     text             |-> <<>>]

\* generateResult: the ResultData and the template rendered on it.
generateResult(source, target, plat, success, err, archInfo) ==
    LET data == ResultData(source, target, plat, success, err, archInfo)
    IN  [data EXCEPT !.text = renderTemplate(data)]

GenerateResult ==
    /\ pc = "report"
    /\ report' = generateResult(sourceImage, targetImage, platform, syncErr = NoErr,
                                syncErr, lastArchInfo)
    /\ pc' = "finish"
    /\ UNCHANGED <<daemon, setup, openIssues, runErr, cfg, title, events, originalImage, platform, sourceImage, targetImage,
                   syncErr, upstreamArchs, probeErr, requestedPlatforms,
                   supportedPlatforms, strategy, buildPlatform, lastArchInfo, dockerfile,
                   processors, hookResult, exitCode, cleaned>>

\* A FinishIssue that gives up at its first failed call.
finishIssueCallsUntilFailure(commentOk, labelsOk, closeOk) ==
    <<Ev("comment.result", commentOk)>>
    \o (IF commentOk THEN <<Ev("labels.add", labelsOk)>> ELSE <<>>)
    \o (IF commentOk /\ labelsOk THEN <<Ev("issue.close", closeOk)>> ELSE <<>>)

\* FinishIssue's calls: the result comment, the labels, the close; each is
\* attempted whatever the one before did.
finishIssueCalls(commentOk, labelsOk, closeOk) ==
    <<Ev("comment.result", commentOk), Ev("labels.add", labelsOk),
      Ev("issue.close", closeOk)>>

\* A processSingleIssue that also returns FinishIssue's error.
processSingleIssueReturnAny(err, finishErr) ==
    IF err # NoErr THEN Errorf("image sync failed", err) ELSE finishErr

\* What processSingleIssue returns: FinishIssue's error is only logged.
processSingleIssueReturn(err, finishErr) ==
    IF err # NoErr THEN Errorf("image sync failed", err) ELSE NoErr

\* FinishIssue, which returns the error of the close only, and the return of
\* processSingleIssue.
FinishIssue ==
    /\ pc = "finish"
    /\ \E commentOk, labelsOk, closeOk \in BOOLEAN :
          /\ events' = events \o finishIssueCalls(commentOk, labelsOk, closeOk)
          /\ openIssues' = IF closeOk THEN Tail(openIssues) ELSE openIssues
          /\ runErr' = processSingleIssueReturn(syncErr,
                          IF closeOk THEN NoErr ELSE PlainError("closing issue failed"))
    /\ pc' = "return"
    /\ UNCHANGED <<daemon, setup, cfg, title, originalImage, platform, sourceImage, targetImage,
                   syncErr, upstreamArchs, probeErr, requestedPlatforms,
                   supportedPlatforms, strategy, buildPlatform, lastArchInfo, dockerfile,
                   processors, hookResult, report, exitCode, cleaned>>

\* main after ProcessIssues: os.Exit(1) on an error, which skips the deferred
\* Cleanup; else the deferred Cleanup and exit code 0.
Return ==
    /\ pc = "return"
    /\ IF runErr # NoErr
       THEN exitCode' = 1 /\ UNCHANGED <<events, cleaned>>
       ELSE /\ exitCode' = 0
            /\ cleaned' = TRUE
            /\ \E closeOk \in BOOLEAN : events' = Append(events, Ev("docker.close", closeOk))
    /\ pc' = "done"
    /\ UNCHANGED <<daemon, setup, openIssues, cfg, title, originalImage, platform, sourceImage, targetImage,
                   syncErr, upstreamArchs, probeErr, requestedPlatforms,
                   supportedPlatforms, strategy, buildPlatform, lastArchInfo, dockerfile,
                   processors, hookResult, report, runErr>>

Next ==
    \/ LoadConfig
    \/ CreateApp
    \/ ProcessIssues
    \/ ProcessIssue
    \/ TransformAndValidate
    \/ EnsureDockerLogin
    \/ InspectArchitectures
    \/ ChooseBuildStrategy
    \/ BuildSingleArch
    \/ BuildWithBuildx
    \/ ProcessImageWithDynamicRegistry
    \/ GenerateResult
    \/ FinishIssue
    \/ Return

Spec == Init /\ [][Next]_vars

(***************************************************************************)
(* The hook chain on its own: a PostProcessorManager as the factory        *)
(* creates it, on which further post-processors are registered, run by     *)
(* EnhancedGenericProcessor.ProcessImage after a push, and the report.     *)
(***************************************************************************)
MaxProcessors == 3

HookConfigs ==
    {c \in Configs : validateConfig(c) = "" /\ c.generic.present
                     /\ c.generic.namespace \in {"mirror", "test"}}

HookProcessors ==
    {StubProcessor("A", TRUE, FALSE),
     StubProcessor("B", TRUE, TRUE),
     StubProcessor("C", FALSE, TRUE),
     NewHuaweiSWRPostProcessor(Huawei("ak", "sk", "cn-north-4")),
     NewHuaweiSWRPostProcessor(Huawei("", "sk", "cn-north-4")),
     NewHuaweiSWRPostProcessor(Huawei("ak", "", "cn-north-4"))}

InitHooks ==
    /\ pc = "register"
    /\ cfg \in HookConfigs
    /\ title = "[PORTER] gcr.io/google-containers/pause:3.2"
    /\ openIssues = <<title>>
    /\ daemon = DefaultDaemon
    /\ setup = IdleSetup
    /\ events = <<>>
    /\ originalImage = "gcr.io/google-containers/pause:3.2"
    /\ platform = ""
    /\ sourceImage = originalImage
    /\ targetImage = BuildTargetImageName("google-containers/pause:3.2",
                                          cfg.generic.registry, cfg.generic.namespace)
    /\ syncErr = NoErr
    /\ upstreamArchs = <<>>
    /\ probeErr = NoErr
    /\ requestedPlatforms = <<>>
    /\ supportedPlatforms = <<>>
    /\ strategy = "none"
    /\ buildPlatform = ""
    /\ lastArchInfo = ""
    /\ dockerfile = FALSE
    /\ processors = CreateManager(cfg)
    /\ hookResult = NoHookResult
    /\ report = NoReport
    /\ runErr = NoErr
    /\ exitCode = -1
    /\ cleaned = FALSE

\* PostProcessorManager.RegisterProcessor.
RegisterProcessor ==
    /\ pc = "register"
    /\ Len(processors) < MaxProcessors
    /\ \E p \in HookProcessors : processors' = Append(processors, p)
    /\ UNCHANGED <<daemon, setup, openIssues, runErr, pc, cfg, title, events, originalImage, platform, sourceImage,
                   targetImage, syncErr, upstreamArchs, probeErr, requestedPlatforms,
                   supportedPlatforms, strategy, buildPlatform, lastArchInfo, dockerfile,
                   hookResult, report, exitCode, cleaned>>

\* EnhancedGenericProcessor.ProcessImage on the registered processors, and
\* the rest of syncImage.
ProcessImage ==
    /\ pc = "register"
    /\ LET r == EnhancedProcessImage(processors, targetImage, cfg.generic.registry)
       IN  /\ hookResult' = r.mgr
           /\ events' = events \o HookEvents(r.mgr.calls)
           /\ syncErr' = AfterProcessImage(r.ret)
    /\ pc' = "report"
    /\ UNCHANGED <<daemon, setup, openIssues, runErr, cfg, title, originalImage, platform, sourceImage, targetImage,
                   upstreamArchs, probeErr, requestedPlatforms, supportedPlatforms,
                   strategy, buildPlatform, lastArchInfo, dockerfile, processors, report,
                   exitCode, cleaned>>

NextHooks ==
    \/ RegisterProcessor
    \/ ProcessImage
    \/ GenerateResult

SpecHooks == InitHooks /\ [][NextHooks]_vars

(***************************************************************************)
(* The name transformer on its own: ImageTransformer.Transform applied to  *)
(* an image reference for a target registry and namespace, and the         *)
(* normalization applied once more to its result.                          *)
(***************************************************************************)
Images ==
    {"gcr.io/google-containers/pause:3.2",
     "k8s.gcr.io/pause:3.2",
     "registry.k8s.io/kube-apiserver:v1.29.0",
     "quay.io/coreos/etcd:v3",
     "ghcr.io/org/tool:1",
     "docker.io/library/nginx:latest",
     "docker.io/nginx",
     "nginx",
     "nginx:latest",
     "nginx:1.25",
     "redis:7.2.4",
     "bitnami/redis",
     "bitnami/redis:7.2",
     "mcr.example.com/dotnet/sdk:8",
     "localhost:5000/app:dev",
     "my.registry.io/a/b/c:1.0",
     "dockerxio/tool",
     "gcr.io/pause"}

TargetRegistries == {"", "registry.example.com"}

TargetNamespaces == {"", "test", "team/sub"}

InitNames ==
    /\ pc = "name"
    /\ originalImage \in Images
    /\ \E r \in TargetRegistries, n \in TargetNamespaces :
          cfg = Config("env", Generic(r, n, "", ""), NoHuawei)
    /\ title = "[PORTER] " \o originalImage
    /\ openIssues = <<title>>
    /\ daemon = DefaultDaemon
    /\ setup = IdleSetup
    /\ events = <<>>
    /\ platform = ""
    /\ sourceImage = ""
    /\ targetImage = ""
    /\ syncErr = NoErr
    /\ upstreamArchs = <<>>
    /\ probeErr = NoErr
    /\ requestedPlatforms = <<>>
    /\ supportedPlatforms = <<>>
    /\ strategy = "none"
    /\ buildPlatform = ""
    /\ lastArchInfo = ""
    /\ dockerfile = FALSE
    /\ processors = <<>>
    /\ hookResult = NoHookResult
    /\ report = NoReport
    /\ runErr = NoErr
    /\ exitCode = -1
    /\ cleaned = FALSE

\* ImageTransformer.Transform, whose error is always nil.
Transform ==
    /\ pc = "name"
    /\ LET source == NormalizeImageName(originalImage)
       IN  \E transformedName \in TransformImageName(source, cfg.rules) :
              /\ sourceImage' = source
              /\ targetImage' = BuildTargetImageName(transformedName, cfg.generic.registry,
                                                     cfg.generic.namespace)
              /\ syncErr' = NoErr
    /\ pc' = "transformed"
    /\ UNCHANGED <<daemon, setup, openIssues, runErr, cfg, title, events, originalImage, platform, upstreamArchs,
                   probeErr, requestedPlatforms, supportedPlatforms, strategy,
                   buildPlatform, lastArchInfo, dockerfile, processors, hookResult,
                   report, exitCode, cleaned>>

\* NormalizeImageName applied to a reference it has produced.
NormalizeAgain ==
    /\ pc = "transformed"
    /\ sourceImage' = NormalizeImageName(sourceImage)
    /\ pc' = "renormalized"
    /\ UNCHANGED <<daemon, setup, openIssues, runErr, cfg, title, events, originalImage, platform, targetImage,
                   syncErr, upstreamArchs, probeErr, requestedPlatforms,
                   supportedPlatforms, strategy, buildPlatform, lastArchInfo, dockerfile,
                   processors, hookResult, report, exitCode, cleaned>>

NextNames ==
    \/ Transform
    \/ NormalizeAgain

SpecNames == InitNames /\ [][NextNames]_vars

(***************************************************************************)
(* Configuration loading on its own: the registry settings of the          *)
(* environment, each present or absent, read by loadFromEnv into the       *)
(* default configuration and validated by LoadConfig.                      *)
(***************************************************************************)
Env(registry, namespace, username, password, ak, sk, region) ==
    [registry |-> registry, namespace |-> namespace, username |-> username,
     password |-> password, ak |-> ak, sk |-> sk, region |-> region]

Envs ==
    {Env(registry, namespace, username, password, ak, sk, region) :
        registry \in {"", SwrHost}, namespace \in {"", "mirror"},
        username \in {"", "user"}, password \in {"", "secret"},
        ak \in {"", "ak"}, sk \in {"", "sk"}, region \in {"", "cn-north-4"}}

DefaultHuaweiRegion == "cn-southwest-2"

\* loadFromEnv and loadRegistriesFromEnv on a configuration without registry
\* settings: a settings block exists as soon as one of its variables is set,
\* and the region has a default when a key is set.
loadFromEnv(c, env) ==
    [c EXCEPT
        !.github = "env",
        !.huawei = IF env.ak = "" /\ env.sk = "" /\ env.region = "" THEN c.huawei
                   ELSE Huawei(env.ak, env.sk,
                               IF env.region # "" THEN env.region ELSE DefaultHuaweiRegion),
        !.generic = IF env.registry = "" /\ env.namespace = "" /\ env.username = ""
                       /\ env.password = ""
                    THEN c.generic
                    ELSE Generic(env.registry, env.namespace, env.username, env.password)]

InitConfig ==
    /\ pc = "loadConfig"
    /\ \E env \in Envs : cfg = loadFromEnv(DefaultConfig, env)
    /\ openIssues = <<"[PORTER] nginx:latest | linux/amd64">>
    /\ daemon = DefaultDaemon
    /\ title = ""
    /\ Blank

NextConfig ==
    \/ LoadConfig
    \/ CreateApp

SpecConfig == InitConfig /\ [][NextConfig]_vars

(***************************************************************************)
(* The builder setup on its own: two runs on one daemon, each going        *)
(* through checkBuildxEnvironment and ensureMultiPlatformBuilder one       *)
(* docker command at a time, any number of times.                          *)
(***************************************************************************)
InitBuilders ==
    /\ pc = "buildx"
    /\ cfg = Config("env", Generic("registry.example.com", "test", "", ""), NoHuawei)
    /\ daemon \in Daemons
    /\ openIssues = <<"[PORTER] gcr.io/google-containers/pause:3.2">>
    /\ title = "[PORTER] gcr.io/google-containers/pause:3.2"
    /\ Blank

SetupFrame ==
    UNCHANGED <<pc, cfg, openIssues, title, events, originalImage, platform, sourceImage,
                targetImage, syncErr, upstreamArchs, probeErr, requestedPlatforms,
                supportedPlatforms, strategy, buildPlatform, lastArchInfo, dockerfile,
                processors, hookResult, report, runErr, exitCode, cleaned>>

\* A run enters checkBuildxEnvironment, for the first time or again.
SetupStart(r) ==
    /\ setup[r].pc \in {"idle", "done", "failed"}
    /\ setup' = [setup EXCEPT ![r] = [pc |-> "version", ls |-> ""]]
    /\ UNCHANGED daemon
    /\ SetupFrame

\* docker buildx version.
SetupVersion(r) ==
    /\ setup[r].pc = "version"
    /\ \E ok \in BOOLEAN :
          setup' = [setup EXCEPT ![r].pc = IF ok THEN "ls" ELSE "failed"]
    /\ UNCHANGED daemon
    /\ SetupFrame

\* docker buildx ls and hasMultiPlatformBuilder on its output.
SetupLs(r) ==
    /\ setup[r].pc = "ls"
    /\ \E ls \in {"fails", buildxLs(daemon)} :
          setup' = [setup EXCEPT ![r] = [pc |-> afterLs(ls), ls |-> ls]]
    /\ UNCHANGED daemon
    /\ SetupFrame

\* docker buildx create: an "already exists" answer leads to docker buildx
\* use, any other failure ends the setup.
SetupCreate(r) ==
    /\ setup[r].pc = "create"
    /\ \E create \in {"fails", buildxCreate(daemon).out} :
          /\ daemon' = IF create = "ok" THEN buildxCreate(daemon).daemon ELSE daemon
          /\ setup' = [setup EXCEPT ![r].pc = CASE create = "fails"  -> "failed"
                                                [] create = "exists" -> "use"
                                                [] create = "ok"     -> "bootstrap"]
    /\ SetupFrame

\* docker buildx use on the builder that already exists.
SetupUse(r) ==
    /\ setup[r].pc = "use"
    /\ \E ok \in BOOLEAN :
          /\ daemon' = IF ok THEN buildxUse(daemon) ELSE daemon
          /\ setup' = [setup EXCEPT ![r].pc = IF ok THEN "bootstrap" ELSE "failed"]
    /\ SetupFrame

\* docker buildx inspect --bootstrap, whose failure is only logged.
SetupBootstrap(r) ==
    /\ setup[r].pc = "bootstrap"
    /\ setup' = [setup EXCEPT ![r].pc = "done"]
    /\ UNCHANGED daemon
    /\ SetupFrame

NextBuilders ==
    \E r \in Runs :
        \/ SetupStart(r)
        \/ SetupVersion(r)
        \/ SetupLs(r)
        \/ SetupCreate(r)
        \/ SetupUse(r)
        \/ SetupBootstrap(r)

SpecBuilders == InitBuilders /\ [][NextBuilders]_vars

(***************************************************************************)
(* Properties.                                                             *)
(***************************************************************************)

OpsOf(evs) == {evs[i].op : i \in 1..Len(evs)}

LoginOps == {"login.sdk", "login.cli"}
ProbeOps == {"manifest.inspect"}
SingleBuildOps == {"image.build", "build.output"}
BuildxOps == {"buildx.version", "buildx.ls", "buildx.create", "buildx.use",
              "buildx.bootstrap", "buildx.build"}
PushOps == {"image.push"}

IsHookOp(op) == HasPrefix(op, "hook.")

\* The external calls made by BuildAndPush.
BuildAndPushOps == LoginOps \cup ProbeOps \cup SingleBuildOps \cup BuildxOps \cup PushOps

\* chooseBuildStrategy has computed its lists: the requested list is never
\* empty, as strings.Split returns at least one part.
StrategyComputed == requestedPlatforms # <<>>

\* C1: once chooseBuildStrategy has run, the resolved platforms are exactly
\* the requested ones that are string-equal to an upstream one, the skipped
\* platforms are exactly the requested ones equal to no upstream one, and the
\* two partition the requested ones.
C1_ResolvedAndSkipped ==
    StrategyComputed =>
        LET R        == Range(requestedPlatforms)
            U        == Range(upstreamArchs)
            resolved == Range(supportedPlatforms)
            skipped  == Range(getUnsupportedPlatforms(requestedPlatforms, upstreamArchs))
        IN  /\ resolved = {r \in R : \E u \in U : r = u}
            /\ skipped = {r \in R : \A u \in U : r # u}
            /\ resolved \cup skipped = R
            /\ resolved \cap skipped = {}

\* A request for linux/aarch64 against an upstream that has linux/arm64:
\* nothing is resolved and the request is skipped.
C1_Witness ==
    /\ StrategyComputed
    /\ "linux/aarch64" \in Range(requestedPlatforms)
    /\ "linux/arm64" \in Range(upstreamArchs)
    /\ supportedPlatforms = <<>>
    /\ getUnsupportedPlatforms(requestedPlatforms, upstreamArchs) = <<"linux/aarch64">>

\* C2: with the resolved platforms taken as a set, exactly one resolved
\* platform means the single-platform path is the one chosen and run, more
\* than one means the buildx path, and never both paths run.
C2_OnePlatformSinglePath ==
    /\ strategy # "none" =>
          /\ Cardinality(Range(supportedPlatforms)) = 1 => strategy = "single"
          /\ Cardinality(Range(supportedPlatforms)) > 1 => strategy = "buildx"
    /\ strategy = "single" => OpsOf(events) \cap BuildxOps = {}
    /\ strategy = "buildx" => OpsOf(events) \cap (SingleBuildOps \cup PushOps) = {}

\* C3: when no requested platform is supported upstream, BuildAndPush returns
\* a ValidationError and nothing is built, pushed or post-processed; a report
\* of success therefore has a resolved platform.
C3_EmptyIntersectionRefused ==
    /\ (StrategyComputed /\ supportedPlatforms = <<>>) =>
          /\ Len(syncErr) > 1
          /\ IsAppError(Tail(syncErr))
          /\ Tail(syncErr)[1].type = ValidationError
          /\ OpsOf(events) \cap (SingleBuildOps \cup BuildxOps \cup PushOps) = {}
          /\ \A op \in OpsOf(events) : ~IsHookOp(op)
          /\ ~(report.rendered /\ report.success)
    /\ (report.rendered /\ report.success) => supportedPlatforms # <<>>

C3_Witness ==
    /\ pc = "finish"
    /\ StrategyComputed
    /\ supportedPlatforms = <<>>
    /\ report.rendered

\* No configured rule matches the normalized image: rewrite leaves it as it is.
Unmatched(image) == \A rule \in cfg.rules : ~RuleMatches(rule[1], StripDigest(image))

\* C4: an image whose registry host matches no rule ends the run with a
\* ValidationError, and BuildAndPush is never called for it.
C4_UnmatchedIsRefused ==
    (sourceImage # "" /\ Unmatched(sourceImage)) =>
        /\ pc \notin {"login", "probe", "strategy", "buildSingle", "buildx", "postProcess"}
        /\ OpsOf(events) \cap BuildAndPushOps = {}
        /\ ChainHasType(syncErr, ValidationError)

HooksRun == pc # "register"

Applicable(p) == CanProcess(p, targetImage, cfg.generic.registry)

\* C6: whatever hooks are registered and whichever of them fail, every
\* applicable hook is run, in registration order, the manager returns nil,
\* and syncImage and the report say success.
C6_HooksAllRunNoPropagation ==
    HooksRun =>
        LET sel == SelectSeq(processors, Applicable)
        IN  /\ hookResult.calls = [i \in 1..Len(sel) |-> sel[i].name]
            /\ Len(hookResult.errors) =
                  Cardinality({i \in 1..Len(sel) :
                                 Process(sel[i], targetImage, cfg.generic.registry) # NoErr})
            /\ hookResult.ret = NoErr
            /\ syncErr = NoErr
            /\ report.rendered => report.success

\* A failing hook first, then one that succeeds: both ran, success reported.
C6_Witness ==
    /\ pc = "finish"
    /\ hookResult.calls = <<"B", "A">>
    /\ Len(hookResult.errors) = 1
    /\ report.success

HuaweiCalls == {i \in 1..Len(hookResult.calls) : hookResult.calls[i] = HuaweiName}

\* C7: on a registry host that matches the Huawei pattern, the Huawei hook's
\* Process is called only for a hook that has both its access key and its
\* secret key; a hook lacking one is passed over without an error, and the
\* run reports success.
C7_HookWithoutCredentialsSkipped ==
    (HooksRun /\ isRegistryMatch(extractRegistryURL(targetImage), HuaweiPatterns)) =>
        /\ Cardinality(HuaweiCalls) =
              Cardinality({i \in 1..Len(processors) :
                             /\ processors[i].kind = "huawei"
                             /\ processors[i].ak # ""
                             /\ processors[i].sk # ""})
        /\ \A i \in 1..Len(hookResult.errors) : ~Contains(hookResult.errors[i], HuaweiName)
        /\ hookResult.ret = NoErr
        /\ syncErr = NoErr
        /\ report.rendered => report.success

C7_Witness ==
    /\ pc = "finish"
    /\ isRegistryMatch(extractRegistryURL(targetImage), HuaweiPatterns)
    /\ \E i \in 1..Len(processors) :
          processors[i].kind = "huawei" /\ (processors[i].ak = "" \/ processors[i].sk = "")
    /\ HuaweiCalls = {}
    /\ report.success

NoCredentials == Docker.username = "" \/ Docker.password = ""

\* C8: without a user name or without a password, no login call is ever made,
\* and the login step goes on to the probe with no error.
C8_NoCredentialsNoLogin ==
    /\ []((pc # "loadConfig" /\ NoCredentials) => OpsOf(events) \cap LoginOps = {})
    /\ [][(pc = "login" /\ NoCredentials) =>
            (pc' = "probe" /\ syncErr' = NoErr /\ events' = events)]_vars

\* A user name without a password: the build is reached with no login made.
C8_Witness ==
    /\ pc \in {"buildSingle", "buildx"}
    /\ Docker.username # ""
    /\ Docker.password = ""
    /\ OpsOf(events) \cap LoginOps = {}
    /\ OpsOf(events) \cap ProbeOps # {}

\* A login, build or push call has failed.
FailedOps == {events[i].op : i \in {k \in 1..Len(events) : ~events[k].ok}}

LoginBuildPushFailed ==
    FailedOps \cap {"login.sdk", "login.cli", "image.build", "build.output",
                    "image.push", "buildx.build"} # {}

\* C9: after a failed login, build or push, the error given to the report is
\* an AppError whose context has the source, the target and the platforms,
\* and the report shows that type, message and context.
C9_TypedErrorInReport ==
    (report.rendered /\ LoginBuildPushFailed) =>
        /\ IsAppError(syncErr)
        /\ {"source_image", "target_image", "platform"} \subseteq {kv[1] : kv \in syncErr[1].ctx}
        /\ report.errorContext = syncErr[1].ctx
        /\ report.errorDetails = formatErrorDetails(syncErr)

\* The external calls of the pipeline steps, in the order made.
IsPipelineEvent(e) == e.op \in BuildAndPushOps \/ IsHookOp(e.op)

PipelineEvents == SelectSeq(events, IsPipelineEvent)

\* login 1, probe 2, build 3, push 4, post-process 5; the buildx command
\* builds and pushes.
StepOf(op) ==
    IF op \in LoginOps THEN 1
    ELSE IF op \in ProbeOps THEN 2
    ELSE IF op \in SingleBuildOps \cup BuildxOps THEN 3
    ELSE IF op \in PushOps THEN 4
    ELSE 5

\* The call at i made its step return an error: a failed listing or
\* bootstrap of builders does not, nor a failed creation answered by a use.
StepFailedAt(evs, i) ==
    /\ ~evs[i].ok
    /\ \/ evs[i].op \in {"login.sdk", "login.cli", "image.build", "build.output",
                         "image.push", "buildx.version", "buildx.use", "buildx.build"}
       \/ /\ evs[i].op = "buildx.create"
          /\ ~(i < Len(evs) /\ evs[i + 1].op = "buildx.use")

ProbeFailedAt(evs, i) == evs[i].op = "manifest.inspect" /\ ~evs[i].ok

InOrderOnce(evs) ==
    /\ \A i, j \in 1..Len(evs) : i < j => StepOf(evs[i].op) <= StepOf(evs[j].op)
    /\ \A i, j \in 1..Len(evs) : i # j => evs[i].op # evs[j].op

\* C10 as stated: the steps come in the order login, probe, build, push,
\* post-process, each call at most once, and after a failed step, the probe
\* included, no call of a later step is made.
C10_StepsInOrder ==
    LET evs == PipelineEvents
    IN  /\ InOrderOnce(evs)
        /\ \A i \in 1..Len(evs) :
              (StepFailedAt(evs, i) \/ ProbeFailedAt(evs, i)) =>
                  \A j \in (i + 1)..Len(evs) : StepOf(evs[j].op) <= StepOf(evs[i].op)

\* C10 amended: the same order and at-most-once, and after a failed login,
\* build or push no further call is made; a failed probe does not end the run.
C10_StepsInOrderAmended ==
    LET evs == PipelineEvents
    IN  /\ InOrderOnce(evs)
        /\ \A i \in 1..Len(evs) : StepFailedAt(evs, i) => i = Len(evs)

\* A run that logged in, probed, built, and failed at the push: it is over.
C10_Witness ==
    /\ pc = "finish"
    /\ PipelineEvents = <<Ev("login.sdk", TRUE), Ev("login.cli", TRUE),
                          Ev("manifest.inspect", TRUE), Ev("image.build", TRUE),
                          Ev("build.output", TRUE), Ev("image.push", FALSE)>>

\* BuildAndPush was entered and the run has been reported: syncImage calls it
\* exactly when ValidateTransformation accepted the two names.
ReportedAfterBuildAndPush ==
    /\ report.rendered
    /\ sourceImage # ""
    /\ IsValidImageName(sourceImage)
    /\ IsValidImageName(targetImage)

\* C11: whenever BuildAndPush was entered, on success and on failure alike,
\* the architecture comparison of the run is kept by the builder and is in
\* the report.
C11_ArchitectureInfoRetained ==
    ReportedAfterBuildAndPush =>
        /\ lastArchInfo # ""
        /\ report.architectureInfo = lastArchInfo

\* C12: a failed probe does not end BuildAndPush: the upstream platforms are
\* taken to be linux/amd64 alone, and the strategy is chosen on them as usual.
C12_ProbeFailureFallsBack ==
    /\ [](probeErr # NoErr => upstreamArchs = <<"linux/amd64">>)
    /\ []((probeErr # NoErr /\ StrategyComputed) =>
            LET amd64(p) == p = "linux/amd64"
                resolved == SelectSeq(requestedPlatforms, amd64)
            IN  /\ supportedPlatforms = resolved
                /\ strategy = (IF Len(resolved) = 0 THEN "none"
                               ELSE IF Len(resolved) = 1 THEN "single" ELSE "buildx"))
    /\ [][pc = "probe" => (pc' = "strategy" /\ syncErr' = NoErr)]_vars

\* The probe failed, and the image was built for linux/amd64 and pushed.
C12_Witness ==
    /\ pc = "postProcess"
    /\ probeErr # NoErr
    /\ strategy = "single"
    /\ buildPlatform = "linux/amd64"
    /\ Ev("image.push", TRUE) \in Range(events)

\* C13: when the process has ended, by whatever path, the temporary
\* Dockerfile is gone and the builder's Cleanup has closed the Docker client
\* that was opened.
C13_CleanupAlwaysRuns ==
    pc = "done" =>
        /\ dockerfile = FALSE
        /\ Ev("docker.ping", TRUE) \in Range(events) => cleaned

TicketOps == {"issues.list", "comment.progress", "comment.result", "labels.add",
              "issue.close"}

IsTicketEvent(e) == e.op \in TicketOps

TicketCalls ==
    LET evs == SelectSeq(events, IsTicketEvent)
    IN  [i \in 1..Len(evs) |-> evs[i].op]

TicketSequence == <<"issues.list", "comment.progress", "comment.result", "labels.add",
                    "issue.close">>

\* C14: the ticket calls of a run are, in this order and each once, the
\* fetch, the progress comment, the result comment, the labels and the close;
\* once processSingleIssue has returned all five have been made, whatever the
\* outcome of the sync and of the calls themselves.
C14_TicketOperationsInOrder ==
    /\ Len(TicketCalls) <= Len(TicketSequence)
    /\ TicketCalls = SubSeq(TicketSequence, 1, Len(TicketCalls))
    /\ (pc \in {"return", "done"} /\ Len(TicketCalls) >= 2) => TicketCalls = TicketSequence

\* An invalid title, a failed result comment and failed labels: the issue is
\* closed all the same.
C14_Witness ==
    /\ pc = "return"
    /\ originalImage = ""
    /\ IsAppError(syncErr)
    /\ Ev("comment.result", FALSE) \in Range(events)
    /\ Ev("labels.add", FALSE) \in Range(events)
    /\ Ev("issue.close", TRUE) \in Range(events)

\* C15: processSingleIssue returns an error exactly when the sync failed,
\* whichever of the result comment, the labels and the close failed.
C15_ReportingFailureKeepsVerdict ==
    (report.rendered /\ pc \in {"return", "done"}) =>
        /\ runErr # NoErr <=> syncErr # NoErr
        /\ report.success <=> syncErr = NoErr

\* The sync succeeded and the close failed: no error is returned.
C15_Witness ==
    /\ pc = "return"
    /\ report.success
    /\ Ev("comment.result", FALSE) \in Range(events)
    /\ Ev("issue.close", FALSE) \in Range(events)
    /\ runErr = NoErr

\* Loading the configuration, setting up the application, fetching the
\* issue or processing it has failed.
RunFailed ==
    \/ events = <<>>
    \/ Ev("docker.ping", FALSE) \in Range(events)
    \/ Ev("issues.list", FALSE) \in Range(events)
    \/ syncErr # NoErr

\* C16: the process ends with exit code 1 exactly when loading the
\* configuration, setting up the application, fetching or processing failed,
\* and with 0 otherwise.
C16_ExitCode ==
    pc = "done" => exitCode = (IF RunFailed THEN 1 ELSE 0)

LastSegment(x) == Split(x, "/")[Len(Split(x, "/"))]

\* The reference names a registry host, a first segment with a dot in it,
\* that a configured rule matches.
NamesMatchedHost(x) ==
    /\ Len(Split(x, "/")) >= 2
    /\ Contains(Split(x, "/")[1], ".")
    /\ \E rule \in cfg.rules : RuleMatches(rule[1], x)

\* C17: for a reference whose registry host a rule matches, Transform returns
\* no error, the reference itself as the source, and as the target the target
\* registry, the target namespace and the last path segment with its tag.
C17_TransformMatchedHost ==
    (/\ pc = "transformed"
     /\ NamesMatchedHost(originalImage)
     /\ cfg.generic.registry # ""
     /\ cfg.generic.namespace # "") =>
        /\ syncErr = NoErr
        /\ sourceImage = originalImage
        /\ targetImage = cfg.generic.registry \o "/" \o cfg.generic.namespace \o "/"
                         \o LastSegment(originalImage)

C17_Witness ==
    /\ pc = "transformed"
    /\ originalImage = "gcr.io/google-containers/pause:3.2"
    /\ sourceImage = "gcr.io/google-containers/pause:3.2"
    /\ targetImage = "registry.example.com/test/pause:3.2"

\* C18: a reference without a slash is normalized into the hub's library
\* namespace, docker.io/library/name[:tag].
C18_BareNameGetsLibrary ==
    (pc = "transformed" /\ ~Contains(originalImage, "/")) =>
        sourceImage = "docker.io/library/" \o originalImage

\* C19: normalizing a normalized reference changes nothing.
C19_NormalizeIdempotent ==
    [][(pc = "transformed" /\ pc' = "renormalized") => sourceImage' = sourceImage]_vars

\* A bare name with a dot in its tag, normalized twice.
C19_Witness ==
    /\ pc = "renormalized"
    /\ originalImage = "nginx:1.25"
    /\ sourceImage = "docker.io/nginx:1.25"

\* C20: the target is the registry, the namespace and the last segment of the
\* rewritten reference, joined by "/", an empty registry or namespace being
\* left out; it has no empty path segment and does not start with "/".
C20_TargetComposition ==
    pc = "transformed" =>
        LET reg == cfg.generic.registry
            ns  == cfg.generic.namespace
        IN  /\ \E t \in TransformImageName(sourceImage, cfg.rules) :
                  targetImage = (IF reg # "" THEN reg \o "/" ELSE "")
                                \o (IF ns # "" THEN ns \o "/" ELSE "")
                                \o LastSegment(t)
            /\ \A i \in 1..Len(Split(targetImage, "/")) : Split(targetImage, "/")[i] # ""
            /\ ~HasPrefix(targetImage, "/")

\* No registry, a namespace: the target starts with the namespace.
C20_Witness ==
    /\ pc = "transformed"
    /\ cfg.generic.registry = ""
    /\ cfg.generic.namespace = "test"
    /\ originalImage = "gcr.io/google-containers/pause:3.2"
    /\ targetImage = "test/pause:3.2"

\* C21: the rendered report takes exactly one of two branches. On success it
\* has the shell block with the pull and tag commands of the target and the
\* source; on failure it has the failure header and, when there is an error,
\* the detailed error block. Both end with the link to the build log, and the
\* architecture summary is there whenever the builder retained one.
C21_ReportBranches ==
    report.rendered =>
        LET lines == Range(report.text)
        IN  /\ (SuccessHeader \in lines) # (FailureHeader \in lines)
            /\ report.success = (syncErr = NoErr)
            /\ report.success =>
                  /\ SuccessHeader \in lines
                  /\ ("docker pull " \o targetImage
                      \o (IF platform # "" THEN " --platform " \o platform ELSE "")) \in lines
                  /\ ("docker tag " \o targetImage \o " " \o sourceImage) \in lines
            /\ ~report.success =>
                  /\ FailureHeader \in lines
                  /\ syncErr # NoErr => /\ "**error details**:" \in lines
                                        /\ report.errorDetails \in lines
                                        /\ report.errorDetails # ""
            /\ report.text[Len(report.text)] = BuildLogLink
            /\ lastArchInfo # "" => lastArchInfo \in lines

\* A failed build reported with its error block and the architecture summary.
C21_Witness ==
    /\ report.rendered
    /\ ~report.success
    /\ lastArchInfo # ""
    /\ lastArchInfo \in Range(report.text)
    /\ "**error details**:" \in Range(report.text)

\* C22: every credential setting is optional on its own: whichever of the
\* registry host, namespace, username, password, access key, secret key and
\* region are present, loading the configuration succeeds.
C22_EverySettingOptional ==
    pc # "loadConfig" => ~(pc = "done" /\ exitCode = 1)

Count(op) == Cardinality({i \in 1..Len(events) : events[i].op = op})

\* The steps of processSingleIssue.
Processing ==
    pc \in {"processIssue", "transform", "login", "probe", "strategy", "buildSingle",
            "buildx", "postProcess", "report", "finish"}

\* C23: a run handles exactly one request. There is one fetch at most; when a
\* request is open the one processed is the first of the open ones, it is
\* reported and closed once, and nothing is fetched or processed after it.
C23_OneRequestPerRun ==
    /\ Count("issues.list") <= 1
    /\ Count("comment.progress") <= 1
    /\ Processing => openIssues # <<>> /\ title = openIssues[1]
    /\ (pc = "done" /\ title # "") =>
          /\ Count("comment.progress") = 1
          /\ Count("comment.result") = 1
          /\ Count("issue.close") = 1

\* Two open requests: the newer one is processed and closed, the older one is
\* still open when the run ends.
C23_Witness ==
    /\ pc = "done"
    /\ title = "[PORTER] nginx:latest | linux/amd64"
    /\ openIssues = <<"[PORTER] gcr.io/google-containers/pause:3.2">>
    /\ Ev("issue.close", TRUE) \in Range(events)

NotUpstream(p) == p \notin Range(upstreamArchs)

\* The requested platforms that upstream does not have, in request order.
Skipped == SelectSeq(requestedPlatforms, NotUpstream)

SkipLine == "skipped: " \o Join(Skipped, ", ") \o " (not supported upstream)\n"

NamedBuilders(d) == {i \in 1..Len(d.builders) : d.builders[i].name = BuilderName}

NamedPlatforms(m) ==
    IF Len(m.manifests) > 0
    THEN {m.manifests[i].os \o "/" \o m.manifests[i].arch :
             i \in {k \in 1..Len(m.manifests) :
                       /\ m.manifests[k].os # "" /\ m.manifests[k].arch # ""
                       /\ m.manifests[k].os # "unknown"
                       /\ m.manifests[k].arch # "unknown"}}
    ELSE IF m.os # "" /\ m.arch # "" /\ m.os # "unknown" /\ m.arch # "unknown"
    THEN {m.os \o "/" \o m.arch}
    ELSE {}

NoDuplicates(seq) == \A i, k \in 1..Len(seq) : seq[i] = seq[k] => i = k

Probed == \E ok \in BOOLEAN : Ev("manifest.inspect", ok) \in Range(events)

\* C26: the list of a probe that succeeded holds the os/arch platforms named
\* by the manifest, one each, none of them "unknown"; a manifest that names
\* none makes the probe fail, so a successful probe never returns an empty
\* list.
C26_ProbedPlatforms ==
    Probed =>
        /\ probeErr = NoErr =>
              /\ Ev("manifest.inspect", TRUE) \in Range(events)
              /\ upstreamArchs # <<>>
              /\ NoDuplicates(upstreamArchs)
              /\ \A i \in 1..Len(upstreamArchs) : ~Contains(upstreamArchs[i], "unknown")
              /\ \E m \in Manifests :
                    m.cmd /\ m.json /\ Range(upstreamArchs) = NamedPlatforms(m)
        /\ probeErr # NoErr =>
              /\ Ev("manifest.inspect", FALSE) \in Range(events)
              /\ \E m \in Manifests : ~m.cmd \/ ~m.json \/ NamedPlatforms(m) = {}

\* A manifest list with a repeated entry, an unknown one and one without an
\* architecture.
C26_Witness ==
    /\ Probed
    /\ probeErr = NoErr
    /\ upstreamArchs = <<"linux/amd64", "linux/ppc64le">>

\* The summary of a run whose probe returned linux/amd64 for the same request.
GenuineSummary ==
    generateArchitectureInfo(<<"linux/amd64">>, requestedPlatforms, supportedPlatforms)

\* C27: when the default platform stands in for a failed probe, the
\* architecture summary of the report says so: it is not the summary of a run
\* whose probe returned linux/amd64 for the same request.
C27_FallbackIsFlagged ==
    (report.rendered /\ probeErr # NoErr /\ report.architectureInfo # "") =>
        report.architectureInfo # GenuineSummary

\* The targets Transform can give an image under the configuration at hand.
TargetsOf(image) ==
    {BuildTargetImageName(t, cfg.generic.registry, cfg.generic.namespace) :
        t \in TransformImageName(NormalizeImageName(image), cfg.rules)}

\* The literals of the rules that match the image.
MatchedLiterals(image) ==
    {rule[2] : rule \in {r \in cfg.rules : RuleMatches(r[1], image) /\ r[2] # ""}}

\* C28: for an image host/path/repo:tag on a configured registry the target is
\* exactly targetRegistry/targetNamespace/repo:tag. Neither the literal of the
\* matched rule nor the source path is in it, so every other such image with
\* the same repo:tag is given the same target.
C28_TargetKeepsRepositoryOnly ==
    (/\ pc = "transformed"
     /\ NamesMatchedHost(originalImage)
     /\ cfg.generic.registry # ""
     /\ cfg.generic.namespace # "") =>
        /\ targetImage = cfg.generic.registry \o "/" \o cfg.generic.namespace \o "/"
                         \o LastSegment(originalImage)
        /\ \A literal \in MatchedLiterals(originalImage) : ~Contains(targetImage, literal)
        /\ \A other \in Images :
              (NamesMatchedHost(other) /\ LastSegment(other) = LastSegment(originalImage)) =>
                 TargetsOf(other) = {targetImage}

\* pause:3.2 of k8s.gcr.io lands where pause:3.2 of gcr.io/google-containers
\* lands.
C28_Witness ==
    /\ pc = "transformed"
    /\ originalImage = "k8s.gcr.io/pause:3.2"
    /\ targetImage = "registry.example.com/test/pause:3.2"
    /\ targetImage \in TargetsOf("gcr.io/google-containers/pause:3.2")

BuildCommandRun == OpsOf(events) \cap {"image.build", "buildx.build"} # {}

\* The platforms named to the build executor: the Platform option of the
\* daemon build, or the parts of the --platform argument of buildx.
HandedPlatforms == Range(Split(buildPlatform, ","))

\* C29: every platform handed to a build executor is one of the requested
\* platforms and one of the upstream platforms in use, probed or default; so
\* platform text of the title reaches a build only where it equals an upstream
\* platform.
C29_BuildPlatformsAreUpstream ==
    /\ BuildCommandRun => buildPlatform # ""
    /\ buildPlatform # "" =>
          /\ HandedPlatforms \subseteq Range(requestedPlatforms)
          /\ HandedPlatforms \subseteq Range(upstreamArchs)
          /\ platform # "" => HandedPlatforms \subseteq Range(RequestedPlatforms(platform))

\* Of linux/amd64 and windows/amd64 in the title only the first, which
\* upstream has, is built.
C29_Witness ==
    /\ platform = "linux/amd64,windows/amd64"
    /\ buildPlatform = "linux/amd64"
    /\ Ev("image.build", TRUE) \in Range(events)

PublishSucceeded ==
    \/ Ev("image.push", TRUE) \in Range(events)
    \/ Ev("buildx.build", TRUE) \in Range(events)

HookCalled == \E i \in 1..Len(events) : IsHookOp(events[i].op)

AfterSyncImage == pc \in {"report", "finish", "return", "done"}

\* C30: processImageWithDynamicRegistry and its hooks run only after
\* BuildAndPush has returned success in the same run, and once: never for a
\* request that validation refused or whose login, build or push failed.
C30_PostProcessAfterPublish ==
    /\ [](pc = "postProcess" =>
            /\ syncErr = NoErr
            /\ PublishSucceeded
            /\ ~LoginBuildPushFailed
            /\ ValidateTransformation(sourceImage, targetImage) = NoErr
            /\ ~HookCalled)
    /\ []((HookCalled \/ processors # <<>>) =>
            PublishSucceeded /\ ~LoginBuildPushFailed)
    /\ [][pc' = "postProcess" => pc \in {"buildSingle", "buildx", "postProcess"}]_vars
    /\ [][pc = "postProcess" => pc' = "report"]_vars
    /\ [][AfterSyncImage => AfterSyncImage']_vars

\* The hooks have run after a push that succeeded.
C30_Witness ==
    /\ pc = "report"
    /\ HookCalled
    /\ Ev("image.push", TRUE) \in Range(events)
    /\ syncErr = NoErr
====
